---- MODULE Spec2Model ----
(***************************************************************************)
(* Verification model of the rsrl reinforcement-learning library:          *)
(*   - the sparse Tile buffer            (rsrl/src/params/tile.rs)         *)
(*   - the TD(lambda) predictor          (src/prediction/td/td_lambda.rs)  *)
(*   - the Acrobot domain's emit/step    (rsrl_domains/src/acrobot.rs)     *)
(* f64 quantities are modelled by exact numbers: integers for the Tile     *)
(* buffer, normalised rationals <<num, den>> for the predictor.            *)
(***************************************************************************)
EXTENDS Integers, Sequences, FiniteSets, TLC

VARIABLES tile, tileIn, tileOut, td, tdPre, tdCall, tdCount, acro, acroOut

vars == <<tile, tileIn, tileOut, td, tdPre, tdCall, tdCount, acro, acroOut>>

tileVars == <<tile, tileIn, tileOut>>
tdVars == <<td, tdPre, tdCall, tdCount>>
acroVars == <<acro, acroOut>>

(***************************************************************************)
(*                              Tile buffer                                *)
(***************************************************************************)

\* Largest shape (length of the one axis) a buffer or target array takes.
MaxDim == 2
\* Number of buffer operations applied in one behaviour.
MaxTileOps == 1

\* Option::None of the `active` field
None == <<>>

\* struct Tile { dim, active: Option<(I, f64)> }; Tile::new validates nothing,
\* so the active index may lie outside the shape.
Tile(dim, active) == [dim |-> dim, active |-> active]

\* BufferMut::zeros
zeros(dim) == Tile(dim, None)

\* The activations drawn as inputs.
Activations == {1, 2}

Tiles ==
    { zeros(d) : d \in 1..MaxDim }
    \cup { Tile(d, a) : d \in 1..MaxDim, a \in (0..MaxDim) \X Activations }

\* Buffer::raw_dim
raw_dim(t) == t.dim

\* Target arrays: one axis of length 1..MaxDim, cells indexed from 0.
Arrays == UNION { [0..(d - 1) -> 0..1] : d \in 1..MaxDim }

InBounds(arr, idx) == idx \in DOMAIN arr

\* The binary closures handed to merge.
MergeFns == {"add", "mul", "sub"}

Apply(f, x, y) ==
    CASE f = "add" -> x + y
      [] f = "mul" -> x * y
      [] f = "sub" -> x - y

\* merge_inplace without the comparison of the two active indices.
merge_inplace_anyindex(self, other, f) ==
    IF self.dim # other.dim
    THEN [res |-> "panic", msg |-> "shapes", self |-> self]
    ELSE IF self.active # None /\ other.active # None
         THEN [res |-> "ok", msg |-> "",
               self |-> Tile(self.dim,
                             <<self.active[1],
                               Apply(f, self.active[2], other.active[2])>>)]
         ELSE [res |-> "panic", msg |-> "indices", self |-> self]

\* Tile::merge_inplace as a function of (self, other, f): the outcome and the
\* value self holds afterwards.
merge_inplace(self, other, f) ==
    IF self.dim # other.dim
    THEN [res |-> "panic", msg |-> "shapes", self |-> self]
    ELSE IF /\ self.active # None
            /\ other.active # None
            /\ self.active[1] = other.active[1]
         THEN [res |-> "ok", msg |-> "",
               self |-> Tile(self.dim,
                             <<self.active[1],
                               Apply(f, self.active[2], other.active[2])>>)]
         ELSE [res |-> "panic", msg |-> "indices", self |-> self]

\* scaled_addto that adds the activation unscaled.
scaled_addto_unscaled(self, alpha, arr) ==
    IF self.active = None
    THEN [res |-> "ok", arr |-> arr]
    ELSE IF InBounds(arr, self.active[1])
         THEN [res |-> "ok",
               arr |-> [arr EXCEPT ![self.active[1]] = @ + self.active[2]]]
         ELSE [res |-> "panic", arr |-> arr]

\* Tile::addto / Tile::scaled_addto on the target array: arr[idx] += alpha * v;
\* indexing outside the array panics and stores nothing.
scaled_addto(self, alpha, arr) ==
    IF self.active = None
    THEN [res |-> "ok", arr |-> arr]
    ELSE IF InBounds(arr, self.active[1])
         THEN [res |-> "ok",
               arr |-> [arr EXCEPT ![self.active[1]] = @ + alpha * self.active[2]]]
         ELSE [res |-> "panic", arr |-> arr]

addto(self, arr) == scaled_addto(self, 1, arr)

NoTile == [dim |-> 0, active |-> None]

TileIdle ==
    /\ tile = [self |-> NoTile, other |-> NoTile, arr |-> <<>>, ops |-> 0]
    /\ tileIn = [op |-> "none"]
    /\ tileOut = [res |-> "none"]

TileInit ==
    /\ \E s \in Tiles, o \in Tiles, a \in Arrays :
          tile = [self |-> s, other |-> o, arr |-> a, ops |-> 0]
    /\ tileIn = [op |-> "none"]
    /\ tileOut = [res |-> "none"]

\* self.merge(other, f): clones self, self is left alone; the clone is
\* returned unless merge_inplace panicked.
Merge(f) ==
    /\ tile.ops < MaxTileOps
    /\ UNCHANGED <<tdVars, acroVars>>
    /\ LET r == merge_inplace(tile.self, tile.other, f) IN
       /\ tileIn' = [op |-> "merge", f |-> f, self |-> tile.self,
                     other |-> tile.other, arr |-> tile.arr]
       /\ tileOut' = IF r.res = "ok"
                     THEN [res |-> "ok", ret |-> r.self]
                     ELSE [res |-> "panic", msg |-> r.msg]
       /\ tile' = [tile EXCEPT !.ops = @ + 1]

\* self.merge_into(other, f): self is moved in; the merged value is returned
\* unless merge_inplace panicked.
MergeInto(f) ==
    /\ tile.ops < MaxTileOps
    /\ UNCHANGED <<tdVars, acroVars>>
    /\ LET r == merge_inplace(tile.self, tile.other, f) IN
       /\ tileIn' = [op |-> "merge_into", f |-> f, self |-> tile.self,
                     other |-> tile.other, arr |-> tile.arr]
       /\ tileOut' = IF r.res = "ok"
                     THEN [res |-> "ok", ret |-> r.self]
                     ELSE [res |-> "panic", msg |-> r.msg]
       /\ tile' = [tile EXCEPT !.ops = @ + 1]

\* self.merge_inplace(other, f): the combined value is stored in self.
MergeInplace(f) ==
    /\ tile.ops < MaxTileOps
    /\ UNCHANGED <<tdVars, acroVars>>
    /\ LET r == merge_inplace(tile.self, tile.other, f) IN
       /\ tileIn' = [op |-> "merge_inplace", f |-> f, self |-> tile.self,
                     other |-> tile.other, arr |-> tile.arr]
       /\ tileOut' = IF r.res = "ok"
                     THEN [res |-> "ok"]
                     ELSE [res |-> "panic", msg |-> r.msg]
       /\ tile' = [tile EXCEPT !.self = r.self, !.ops = @ + 1]

\* self.addto(&mut arr)
Addto ==
    /\ tile.ops < MaxTileOps
    /\ UNCHANGED <<tdVars, acroVars>>
    /\ LET r == addto(tile.self, tile.arr) IN
       /\ tileIn' = [op |-> "addto", alpha |-> 1, self |-> tile.self,
                     other |-> tile.other, arr |-> tile.arr]
       /\ tileOut' = [res |-> r.res]
       /\ tile' = [tile EXCEPT !.arr = r.arr, !.ops = @ + 1]

\* self.scaled_addto(alpha, &mut arr)
ScaledAddto(alpha) ==
    /\ tile.ops < MaxTileOps
    /\ UNCHANGED <<tdVars, acroVars>>
    /\ LET r == scaled_addto(tile.self, alpha, tile.arr) IN
       /\ tileIn' = [op |-> "scaled_addto", alpha |-> alpha, self |-> tile.self,
                     other |-> tile.other, arr |-> tile.arr]
       /\ tileOut' = [res |-> r.res]
       /\ tile' = [tile EXCEPT !.arr = r.arr, !.ops = @ + 1]

Alphas == {-1, 0, 2}

TileNext ==
    \/ \E f \in MergeFns : Merge(f)
    \/ \E f \in MergeFns : MergeInto(f)
    \/ \E f \in MergeFns : MergeInplace(f)
    \/ Addto
    \/ \E alpha \in Alphas : ScaledAddto(alpha)

(***************************************************************************)
(*                      Exact arithmetic for f64 values                    *)
(***************************************************************************)

Abs(x) == IF x < 0 THEN -x ELSE x

RECURSIVE GCD(_, _)
GCD(a, b) == IF b = 0 THEN a ELSE GCD(b, a % b)

\* A rational <<num, den>> in lowest terms, den > 0.
Norm(n, d) ==
    LET g == GCD(Abs(n), d) IN <<n \div g, d \div g>>

R(n) == <<n, 1>>
Zero == R(0)
One == R(1)
RAdd(a, b) ==
    LET g == GCD(a[2], b[2])
    IN  Norm(a[1] * (b[2] \div g) + b[1] * (a[2] \div g), (a[2] \div g) * b[2])
RNeg(a) == <<-a[1], a[2]>>
RSub(a, b) == RAdd(a, RNeg(b))
RMul(a, b) ==
    LET g1 == GCD(Abs(a[1]), b[2])
        g2 == GCD(Abs(b[1]), a[2])
    IN  Norm((a[1] \div g1) * (b[1] \div g2), (a[2] \div g2) * (b[2] \div g1))

(***************************************************************************)
(*                          TD(lambda) predictor                           *)
(***************************************************************************)

\* Dimension of the projector, of theta and of the trace.
Dim == 4
\* Number of handle_sample / handle_terminal calls in one behaviour.
MaxTdSteps == 2

Features == 0..(Dim - 1)

ZeroVec == [i \in Features |-> Zero]

\* The raw states handed to the predictor. "s0" and "s3" are tile-coded onto
\* the single features 0 and 3; "off" is a state the projector cannot
\* represent.
Representable == {"s0", "s3"}
RawStates == Representable \cup {"off"}

\* Projector::project: a sparse projection, the set of active features.
project(s) == IF s = "s0" THEN {0} ELSE {3}

\* Projection::expanded(dim): the dense vector of a sparse projection.
expanded(phi) == [i \in Features |-> IF i \in phi THEN One ELSE Zero]

RECURSIVE Dot(_, _, _)
Dot(theta, vec, n) ==
    IF n = 0 THEN Zero
    ELSE RAdd(RMul(theta[n - 1], vec[n - 1]), Dot(theta, vec, n - 1))

\* SimpleLFA::evaluate_phi: the dot product of theta and the projection.
evaluate_phi(theta, phi) == Dot(theta, expanded(phi), Dim)

\* SimpleLFA::evaluate: Option<f64>, None for a state the projector cannot
\* represent.
evaluate(theta, s) ==
    IF s \in Representable THEN <<evaluate_phi(theta, project(s))>> ELSE None

\* SimpleLFA::update_phi with a dense projection: theta += delta * vec.
update_phi(theta, vec, delta) ==
    [i \in Features |-> RAdd(theta[i], RMul(delta, vec[i]))]

\* Trace::decay: the stored vector times rate.
decay(trace, rate) ==
    [trace EXCEPT !.vec = [i \in Features |-> RMul(rate, trace.vec[i])]]

\* Trace::update: the expanded projection added onto the stored vector.
update(trace, vec) ==
    [trace EXCEPT !.vec = [i \in Features |-> RAdd(trace.vec[i], vec[i])]]

\* Trace::get
get(trace) == trace.vec

\* Parameter: the current value, the decay factor of its schedule and the
\* number of steps taken.
Parameter(v, rate) == [value |-> v, rate |-> rate, steps |-> 0]

\* Parameter::step
step(p) == [p EXCEPT !.value = RMul(p.value, p.rate), !.steps = @ + 1]

\* predict_v that takes an absent value for 0 (unwrap_or(0.0)).
predict_v_or_zero(p, s) ==
    IF evaluate(p.theta, s) = None THEN <<Zero>> ELSE evaluate(p.theta, s)

\* TDLambda::predict_v: fa_theta.evaluate(s).unwrap()
predict_v(p, s) == evaluate(p.theta, s)

\* update_v that folds the projection in without decaying the trace first.
update_v_nodecay(p, phi_s, error) ==
    LET trace == update(p.trace, expanded(phi_s))
    IN  [p EXCEPT !.trace = trace,
                  !.theta = update_phi(p.theta, get(trace),
                                       RMul(p.alpha.value, error))]

\* TDLambda::update_v
update_v(p, phi_s, error) ==
    LET decay_rate == RMul(p.trace.lambda, p.gamma.value)
        decayed == decay(p.trace, decay_rate)
        trace == update(decayed, expanded(phi_s))
    IN  [p EXCEPT !.trace = trace,
                  !.theta = update_phi(p.theta, get(trace),
                                       RMul(p.alpha.value, error))]

\* handle_sample that reads the next-state value after the weight update.
handle_sample_late_nv(p, t) ==
    LET phi_s == project(t.from.state)
        v == evaluate_phi(p.theta, phi_s)
        nv0 == predict_v(p, t.to.state)
    IN  IF nv0 = None
        THEN [res |-> "panic", p |-> p]
        ELSE LET q == update_v(p, phi_s, RSub(t.reward, v))
                 nv == predict_v(q, t.to.state)
                 td_error == RSub(RAdd(t.reward, RMul(p.gamma.value, nv[1])), v)
             IN  [res |-> "ok", td_error |-> td_error,
                  p |-> update_v(p, phi_s, td_error)]

\* TDLambda::handle_sample: the outcome, the TD error computed and the
\* predictor afterwards.
handle_sample(p, t) ==
    LET phi_s == project(t.from.state)
        v == evaluate_phi(p.theta, phi_s)
        nv == predict_v(p, t.to.state)
    IN  IF nv = None
        THEN [res |-> "panic", p |-> p]
        ELSE LET td_error == RSub(RAdd(t.reward, RMul(p.gamma.value, nv[1])), v)
             IN  [res |-> "ok", td_error |-> td_error,
                  p |-> update_v(p, phi_s, td_error)]

\* handle_terminal that steps alpha but not gamma.
handle_terminal_alpha_only(p, t) ==
    LET phi_s == project(t.from.state)
        td_error == RSub(t.reward, evaluate_phi(p.theta, phi_s))
        updated == update_v(p, phi_s, td_error)
        reset == [updated EXCEPT !.trace = decay(updated.trace, Zero)]
    IN  [res |-> "ok", td_error |-> td_error,
         p |-> [reset EXCEPT !.alpha = step(reset.alpha)]]

\* handle_terminal that resets the trace before the weight update.
handle_terminal_early_reset(p, t) ==
    LET phi_s == project(t.from.state)
        td_error == RSub(t.reward, evaluate_phi(p.theta, phi_s))
        cleared == [p EXCEPT !.trace = decay(p.trace, Zero)]
        updated == update_v(cleared, phi_s, td_error)
        reset == [updated EXCEPT !.trace = decay(updated.trace, Zero)]
    IN  [res |-> "ok", td_error |-> td_error,
         p |-> [reset EXCEPT !.alpha = step(reset.alpha),
                             !.gamma = step(reset.gamma)]]

\* TDLambda::handle_terminal
handle_terminal(p, t) ==
    LET phi_s == project(t.from.state)
        td_error == RSub(t.reward, evaluate_phi(p.theta, phi_s))
        updated == update_v(p, phi_s, td_error)
        reset == [updated EXCEPT !.trace = decay(updated.trace, Zero)]
    IN  [res |-> "ok", td_error |-> td_error,
         p |-> [reset EXCEPT !.alpha = step(reset.alpha),
                             !.gamma = step(reset.gamma)]]

\* Observation and Transition of the domain module.
Observation(kind, s) == [kind |-> kind, state |-> s]

Transitions ==
    { [from |-> Observation("Full", f), action |-> 0, reward |-> R(r),
       to |-> Observation(k, s)] :
         f \in Representable, r \in {-1, 1},
         k \in {"Full", "Terminal"}, s \in RawStates }

\* TDLambda::new
TDLambda(trace, theta, alpha, gamma) ==
    [trace |-> trace, theta |-> theta, alpha |-> alpha, gamma |-> gamma]

NoCall == [op |-> "none"]

TdIdle ==
    /\ td = TDLambda([lambda |-> Zero, vec |-> <<>>], <<>>,
                     Parameter(Zero, One), Parameter(Zero, One))
    /\ tdPre = td
    /\ tdCall = NoCall
    /\ tdCount = [sample |-> 0, terminal |-> 0]

TdInit ==
    /\ \E a \in {<<1, 10>>, <<1, 2>>}, g \in {Zero, <<9, 10>>},
          l \in {Zero, <<1, 2>>} :
          td = TDLambda([lambda |-> l, vec |-> ZeroVec], ZeroVec,
                        Parameter(a, <<1, 2>>), Parameter(g, One))
    /\ tdPre = td
    /\ tdCall = NoCall
    /\ tdCount = [sample |-> 0, terminal |-> 0]

HandleSample(t) ==
    /\ tdCount.sample + tdCount.terminal < MaxTdSteps
    /\ UNCHANGED <<tileVars, acroVars>>
    /\ LET r == handle_sample(td, t) IN
       /\ td' = r.p
       /\ tdCall' = IF r.res = "ok"
                    THEN [op |-> "handle_sample", t |-> t, res |-> "ok",
                          td_error |-> r.td_error]
                    ELSE [op |-> "handle_sample", t |-> t, res |-> "panic"]
    /\ tdPre' = td
    /\ tdCount' = [tdCount EXCEPT !.sample = @ + 1]

HandleTerminal(t) ==
    /\ tdCount.sample + tdCount.terminal < MaxTdSteps
    /\ UNCHANGED <<tileVars, acroVars>>
    /\ LET r == handle_terminal(td, t) IN
       /\ td' = r.p
       /\ tdCall' = [op |-> "handle_terminal", t |-> t, res |-> "ok",
                     td_error |-> r.td_error]
    /\ tdPre' = td
    /\ tdCount' = [tdCount EXCEPT !.terminal = @ + 1]

TdNext ==
    \/ \E t \in Transitions : HandleSample(t)
    \/ \E t \in Transitions : HandleTerminal(t)

(***************************************************************************)
(*                             Acrobot domain                              *)
(***************************************************************************)
\* Angles are counted in units of pi/3, where 2*cos is a whole number;
\* angular velocities in units of one angle unit per time step DT. The
\* accelerations that runge_kutta4 integrates from Acrobot::grad are not
\* computed: every acceleration of magnitude up to AccBound is a possible
\* result of the integration.

\* LIMITS_THETA1 = LIMITS_THETA2 = [-PI, PI]
LimTheta == 3
\* LIMITS_DTHETA1 = [-4 PI, 4 PI]
LimDTheta1 == 4
\* LIMITS_DTHETA2 = [-9 PI, 9 PI]
LimDTheta2 == 9
\* Largest change of an angular velocity over one step, before the torque.
AccBound == 1

REWARD_STEP == -1
REWARD_TERMINAL == 0

\* ALL_ACTIONS = [-TORQUE, 0.0, TORQUE]
ALL_ACTIONS == <<-1, 0, 1>>

\* 2 * cos(k * pi / 3)
TwoCos(k) ==
    LET m == k % 6 IN
    CASE m = 0 -> 2
      [] m = 1 -> 1
      [] m = 2 -> -1
      [] m = 3 -> -2
      [] m = 4 -> -1
      [] m = 5 -> 1

\* Acrobot::is_terminal: cos(theta1) + cos(theta1 + theta2) < -1.0
is_terminal(theta1, theta2) == TwoCos(theta1) + TwoCos(theta1 + theta2) < -2

\* wrap!(lo, x, hi): x brought into [lo, hi] by whole turns of hi - lo.
RECURSIVE wrap(_, _, _)
wrap(lo, x, hi) ==
    IF x > hi THEN wrap(lo, x - (hi - lo), hi)
    ELSE IF x < lo THEN wrap(lo, x + (hi - lo), hi)
    ELSE x

\* clip!(lo, x, hi)
clip(lo, x, hi) == IF x < lo THEN lo ELSE IF x > hi THEN hi ELSE x

\* Acrobot::new
Acrobot(theta1, theta2, dtheta1, dtheta2) == <<theta1, theta2, dtheta1, dtheta2>>

\* Default for Acrobot
default == Acrobot(0, 0, 0, 0)

\* Acrobot::update_state: ns is the integrated state, with g1 and g2 the
\* velocity changes the integration produced.
update_state(s, a, g1, g2) ==
    LET ns == <<s[1] + s[3], s[2] + s[4], s[3] + g1, s[4] + g2 + ALL_ACTIONS[a + 1]>>
    IN  <<wrap(-LimTheta, ns[1], LimTheta),
          wrap(-LimTheta, ns[2], LimTheta),
          clip(-LimDTheta1, ns[3], LimDTheta1),
          clip(-LimDTheta2, ns[4], LimDTheta2)>>

\* Acrobot::emit
emit(s) ==
    IF is_terminal(s[1], s[2])
    THEN [kind |-> "Terminal", state |-> s]
    ELSE [kind |-> "Full", state |-> s]

\* step with the two rewards exchanged.
step_result_swapped(s) ==
    LET to == emit(s)
        reward == IF to.kind = "Terminal" THEN REWARD_STEP ELSE REWARD_TERMINAL
    IN  [to |-> to, reward |-> reward]

\* Acrobot::step on the updated state: the pair (observation, reward).
step_result(s) ==
    LET to == emit(s)
        reward == IF to.kind = "Terminal" THEN REWARD_TERMINAL ELSE REWARD_STEP
    IN  [to |-> to, reward |-> reward]

AcroIdle == acro = default /\ acroOut = [op |-> "none"]

AcroInit ==
    /\ acro \in {default, Acrobot(LimTheta, 0, 0, 0)}
    /\ acroOut = [op |-> "none"]

Step(a) ==
    /\ UNCHANGED <<tileVars, tdVars>>
    /\ \E g1 \in -AccBound..AccBound, g2 \in -AccBound..AccBound :
       LET s == update_state(acro, a, g1, g2)
           r == step_result(s)
       IN  /\ acro' = s
           /\ acroOut' = [op |-> "step", action |-> a, obs |-> r.to,
                          reward |-> r.reward]

Emit ==
    /\ UNCHANGED <<tileVars, tdVars>>
    /\ acro' = acro
    /\ acroOut' = [op |-> "emit", obs |-> emit(acro), pre |-> acro]

AcroNext ==
    \/ \E a \in 0..2 : Step(a)
    \/ Emit

(***************************************************************************)
(*                             Specifications                              *)
(***************************************************************************)

InitTile == TileInit /\ TdIdle /\ AcroIdle

SpecTile == InitTile /\ [][TileNext]_vars

InitTD == TdInit /\ TileIdle /\ AcroIdle

SpecTD == InitTD /\ [][TdNext]_vars

InitAcrobot == AcroInit /\ TileIdle /\ TdIdle

SpecAcrobot == InitAcrobot /\ [][AcroNext]_vars

(***************************************************************************)
(*                          Properties: Tile buffer                        *)
(***************************************************************************)

MergeOps == {"merge", "merge_into", "merge_inplace"}

\* C1: for all Tile buffers A and B of identical shape, whatever their active
\* cells (buffers built by zeros included), merge(A, B, +) returns a buffer
\* whose raw_dim() equals A.raw_dim().
C1_MergeKeepsShape ==
    (/\ tileIn.op = "merge"
     /\ tileIn.f = "add"
     /\ raw_dim(tileIn.self) = raw_dim(tileIn.other))
    => /\ tileOut.res = "ok"
       /\ raw_dim(tileOut.ret) = raw_dim(tileIn.self)

\* C2: merge, merge_into and merge_inplace panic, and neither return nor store
\* a combined value, whenever the two buffers differ in shape or both have an
\* active cell at differing indices.
C2_MismatchPanics ==
    (/\ tileIn.op \in MergeOps
     /\ \/ tileIn.self.dim # tileIn.other.dim
        \/ /\ tileIn.self.active # None
           /\ tileIn.other.active # None
           /\ tileIn.self.active[1] # tileIn.other.active[1])
    => /\ tileOut.res = "panic"
       /\ "ret" \notin DOMAIN tileOut
       /\ tile.self = tileIn.self

C2_Witness ==
    /\ tileIn.op = "merge_inplace"
    /\ tileIn.self.dim = tileIn.other.dim
    /\ tileIn.self.active # None
    /\ tileIn.other.active # None
    /\ tileIn.self.active[1] # tileIn.other.active[1]
    /\ tileOut.res = "panic"

\* C3: addto leaves the target unchanged when the Tile has no active cell;
\* with active (idx, v) and idx a cell of the target, addto adds exactly v
\* (scaled_addto exactly alpha * v) at idx and changes no other cell; the Tile
\* itself is never changed.
C3_AddtoFrame ==
    tileIn.op \in {"addto", "scaled_addto"}
    => /\ tile.self = tileIn.self
       /\ DOMAIN tile.arr = DOMAIN tileIn.arr
       /\ tileIn.self.active = None => tile.arr = tileIn.arr
       /\ (tileIn.self.active # None /\ InBounds(tileIn.arr, tileIn.self.active[1]))
          => \A i \in DOMAIN tileIn.arr :
                tile.arr[i] = IF i = tileIn.self.active[1]
                              THEN tileIn.arr[i] + tileIn.alpha * tileIn.self.active[2]
                              ELSE tileIn.arr[i]

C3_Witness ==
    /\ tileIn.op = "scaled_addto"
    /\ tileIn.alpha = 2
    /\ tileIn.self.active # None
    /\ DOMAIN tileIn.arr = 0..(tileIn.self.dim - 1)
    /\ InBounds(tileIn.arr, tileIn.self.active[1])
    /\ tile.arr # tileIn.arr

(***************************************************************************)
(*                     Properties: TD(lambda) predictor                    *)
(***************************************************************************)

Called == tdCall.op # "none"

\* The value of state s under the theta held before the last call.
VOld(s) == evaluate_phi(tdPre.theta, project(s))

\* lambda * gamma * trace_old + expand(phi(from)), from the values before the
\* last call.
TraceNew(i) ==
    RAdd(RMul(RMul(tdPre.trace.lambda, tdPre.gamma.value), tdPre.trace.vec[i]),
         expanded(project(tdCall.t.from.state))[i])

\* C4: a Transition whose `to` is Terminal is always processed with the terminal
\* target delta = reward - v(from), whichever of handle_sample and
\* handle_terminal receives it.
C4_TerminalTarget ==
    (/\ Called
     /\ tdCall.res = "ok"
     /\ tdCall.t.to.kind = "Terminal")
    => tdCall.td_error = RSub(tdCall.t.reward, VOld(tdCall.t.from.state))

\* C5: alpha and gamma are each stepped exactly once per handle_terminal call
\* and never by handle_sample: after N terminal transitions both have been
\* stepped exactly N times, however many non-terminal transitions occurred.
C5_ScheduleSteps ==
    /\ td.alpha.steps = tdCount.terminal
    /\ td.gamma.steps = tdCount.terminal
    /\ tdCall.op = "handle_sample"
       => td.alpha = tdPre.alpha /\ td.gamma = tdPre.gamma
    /\ tdCall.op = "handle_terminal"
       => /\ td.alpha.steps = tdPre.alpha.steps + 1
          /\ td.gamma.steps = tdPre.gamma.steps + 1
          /\ td.alpha.value = RMul(tdPre.alpha.value, tdPre.alpha.rate)
          /\ td.gamma.value = RMul(tdPre.gamma.value, tdPre.gamma.rate)

C5_Witness ==
    /\ tdCount.sample = 1
    /\ tdCount.terminal = 1
    /\ tdCall.op = "handle_sample"
    /\ tdCall.res = "ok"
    /\ td.alpha.steps = 1
    /\ td.gamma.steps = 1

\* C6: after every handle_terminal call the trace is all-zero whatever it held
\* before, the terminal weight update having used the trace as it was before
\* the reset (so every episode starts from a zero trace).
C6_TraceReset ==
    /\ tdCall.op = "handle_terminal"
       => /\ \A i \in Features : td.trace.vec[i] = Zero
          /\ \A i \in Features :
                td.theta[i] =
                    RAdd(tdPre.theta[i],
                         RMul(RMul(tdPre.alpha.value, tdCall.td_error), TraceNew(i)))
    /\ tdCall.op \in {"none", "handle_terminal"}
       => td.trace.vec = ZeroVec

C6_Witness ==
    /\ tdCall.op = "handle_terminal"
    /\ tdPre.trace.vec[0] # Zero
    /\ tdPre.trace.lambda # Zero
    /\ tdPre.gamma.value # Zero
    /\ tdCall.t.from.state = "s3"
    /\ td.theta[0] # tdPre.theta[0]
    /\ td.trace.vec = ZeroVec

\* C7: handle_terminal with gamma = 0 and lambda = 0 changes theta by exactly
\* alpha * (r - v_old) * phi, alpha being the value before its schedule steps:
\* no bootstrap term, nothing from earlier trace content.
C7_TerminalUpdate ==
    (/\ tdCall.op = "handle_terminal"
     /\ tdPre.gamma.value = Zero
     /\ tdPre.trace.lambda = Zero)
    => \A i \in Features :
          RSub(td.theta[i], tdPre.theta[i]) =
              RMul(RMul(tdPre.alpha.value,
                        RSub(tdCall.t.reward, VOld(tdCall.t.from.state))),
                   expanded(project(tdCall.t.from.state))[i])

C7_Witness ==
    /\ tdCall.op = "handle_terminal"
    /\ tdPre.gamma.value = Zero
    /\ tdPre.trace.lambda = Zero
    /\ tdPre.trace.vec[0] # Zero
    /\ tdCall.t.from.state = "s3"
    /\ td.theta[3] # tdPre.theta[3]
    /\ td.theta[0] = tdPre.theta[0]

\* C8: handle_sample computes v = value(from) and v' = value(to) with the theta
\* held before the call, delta = reward + gamma * v' - v, the trace becomes
\* lambda * gamma * trace_old + expand(phi(from)), and theta changes by exactly
\* alpha * delta * trace_new. With one active feature at index 3, theta = 0,
\* alpha = 0.1, gamma = 0.9, lambda = 0, reward 1.0 and next-state value 0:
\* delta is 1.0, theta[3] becomes 0.1 and every other weight stays 0.
C8_SampleUpdate ==
    (tdCall.op = "handle_sample" /\ tdCall.res = "ok")
    => LET delta == RSub(RAdd(tdCall.t.reward,
                              RMul(tdPre.gamma.value, VOld(tdCall.t.to.state))),
                         VOld(tdCall.t.from.state))
       IN  /\ tdCall.td_error = delta
           /\ \A i \in Features : td.trace.vec[i] = TraceNew(i)
           /\ \A i \in Features :
                 td.theta[i] =
                     RAdd(tdPre.theta[i],
                          RMul(RMul(tdPre.alpha.value, delta), TraceNew(i)))
           /\ (/\ tdPre.theta = ZeroVec
               /\ tdPre.alpha.value = <<1, 10>>
               /\ tdPre.gamma.value = <<9, 10>>
               /\ tdPre.trace.lambda = Zero
               /\ tdCall.t.from.state = "s3"
               /\ tdCall.t.reward = One)
              => /\ tdCall.td_error = One
                 /\ td.theta[3] = <<1, 10>>
                 /\ \A i \in Features \ {3} : td.theta[i] = Zero

C8_Witness ==
    /\ tdCall.op = "handle_sample"
    /\ tdCall.res = "ok"
    /\ tdPre.theta = ZeroVec
    /\ tdPre.alpha.value = <<1, 10>>
    /\ tdPre.gamma.value = <<9, 10>>
    /\ tdPre.trace.lambda = Zero
    /\ tdCall.t.from.state = "s3"
    /\ tdCall.t.reward = One
    /\ td.theta[3] = <<1, 10>>

\* C10: handle_sample given a `to` state the approximator cannot evaluate
\* aborts, with no default value standing in for the next-state value, and
\* theta, the trace, alpha and gamma are as they were before the call.
C10_UnrepresentableAborts ==
    (/\ tdCall.op = "handle_sample"
     /\ tdCall.t.to.state \notin Representable)
    => /\ tdCall.res = "panic"
       /\ td = tdPre

C10_Witness ==
    /\ tdCall.op = "handle_sample"
    /\ tdCall.t.to.state = "off"
    /\ tdCall.res = "panic"
    /\ tdPre.theta # ZeroVec
    /\ tdPre.trace.vec # ZeroVec

(***************************************************************************)
(*                        Properties: Acrobot domain                       *)
(***************************************************************************)

\* C9: the observation returned by step is Terminal exactly when is_terminal
\* holds of the updated state and Full otherwise, it carries the updated
\* state, and the reward is 0.0 exactly when it is Terminal and -1.0
\* otherwise; emit leaves the state alone, and on the default state yields a
\* Full observation of [0, 0, 0, 0].
C9_StepEmit ==
    /\ acroOut.op = "step"
       => /\ acroOut.obs.state = acro
          /\ acroOut.obs.kind =
                 IF is_terminal(acro[1], acro[2]) THEN "Terminal" ELSE "Full"
          /\ acroOut.reward =
                 IF acroOut.obs.kind = "Terminal" THEN 0 ELSE -1
    /\ acroOut.op = "emit"
       => /\ acro = acroOut.pre
          /\ acroOut.obs.state = acro
          /\ acroOut.obs.kind =
                 IF is_terminal(acro[1], acro[2]) THEN "Terminal" ELSE "Full"
          /\ acro = default => acroOut.obs = [kind |-> "Full", state |-> <<0, 0, 0, 0>>]

C9_Witness ==
    /\ acroOut.op = "step"
    /\ acroOut.obs.kind = "Terminal"
    /\ acroOut.reward = 0
    /\ acro[3] # 0

====
